---- MODULE Spec2Model ----
(***************************************************************************)
(* The GitHub integration: polling coordinators (information, release,     *)
(* issue), the coordinator bundle registered in hass.data, the sensor      *)
(* platform reading the coordinators, and the device-login config flow.    *)
(***************************************************************************)
EXTENDS Integers, Sequences, FiniteSets, TLC

\* ---------------------------------------------------------------- bounds
NumRepos == 1
NumInfo == 1
MaxReleases == 1
NumItems == 3
MaxPages == 3
MaxTicks == 1
NumTokens == 2
MaxCallLater == 2

\* ------------------------------------------------------------- constants
GITHUB_DOMAIN == "github"

None == <<>>

Some(v) == <<v>>

Kinds == {"information", "release", "issue"}

CoordinatorKeys == {"information", "release", "issue", "commit"}

Repos == 1..NumRepos

InfoValues == 1..NumInfo

Releases == 1..MaxReleases

PullRequestMarker == <<"pull_request">>

\* the item i of the issues list: the even ones are pull requests
Item(i) == [id |-> i, pull_request |-> IF i % 2 = 0 THEN PullRequestMarker ELSE None]

Items == {Item(i) : i \in 1..NumItems}

RECURSIVE SeqsUpTo(_, _)
SeqsUpTo(S, n) ==
    IF n = 0 THEN {<<>>}
    ELSE LET shorter == SeqsUpTo(S, n - 1)
         IN  shorter \cup {Append(s, x) : s \in shorter, x \in S}

RECURSIVE Perms(_)
Perms(S) ==
    IF S = {} THEN {<<>>}
    ELSE UNION {{<<x>> \o p : p \in Perms(S \ {x})} : x \in S}

SeqRange(s) == {s[i] : i \in 1..Len(s)}

\* what the remote service may answer
ReleaseLists == SeqsUpTo(Releases, MaxReleases)

PageData == {<<>>} \cup {<<i>> : i \in Items}

BundlePageData == {<<>>, <<Item(1)>>, <<Item(2)>>}

NextPageNumbers == {2}

LastPageNumbers == 1..MaxPages

BundleLastPageNumbers == {1}

\* number of occurrences of x in the sequence l
Count(x, l) == Cardinality({i \in 1..Len(l) : l[i] = x})

RepositoryLists == UNION {Perms(S) : S \in SUBSET Repos}

VARIABLES
    repositories,          \* entry.data["repositories"]
    setup_pc,              \* position of async_setup_entry / entry state
    repo_idx,              \* index of the repository the setup loop is at
    hass_data,             \* hass.data
    data,                  \* coordinator.data, per coordinator
    last_update_success,   \* coordinator.last_update_success
    fetch,                 \* position of the coordinator's running fetch
    in_flight,             \* number of the coordinator's running fetches
    response,              \* _get_issues: first page response of the call
    results,               \* _get_issues: results of the gathered pages
    completed,             \* order in which the gathered pages completed
    all_issues,            \* _async_update_data: all_issues of the running call
    ticks,                 \* number of timer driven refreshes so far
    sensor_pc,             \* position of the sensor platform setup
    entities,              \* entities handed to async_add_entities
    entries,               \* the config entries of the domain
    flow,                  \* the flow as the flow manager holds it
    awaiting,              \* the request a step of the flow is waiting for
    device,                \* ConfigFlow._device
    login_device,          \* ConfigFlow._login_device
    activation,            \* ConfigFlow._activation
    call_later,            \* scheduled calls of _wait_for_activation
    activating,            \* _wait_for_activation waiting for the activation
    configure_tasks,       \* tasks created for flow.async_configure
    flow_result            \* the last result the flow returned

vars == <<repositories, setup_pc, repo_idx, hass_data, data,
          last_update_success, fetch, in_flight, response, results, completed,
          all_issues, ticks, sensor_pc, entities, entries, flow, awaiting,
          device, login_device, activation, call_later, activating,
          configure_tasks, flow_result>>

flowVars == <<entries, flow, awaiting, device, login_device, activation,
              call_later, activating, configure_tasks, flow_result>>

integrationVars == <<repositories, setup_pc, repo_idx, hass_data, data,
                     last_update_success, fetch, in_flight, response, results,
                     completed, all_issues, ticks, sensor_pc, entities>>

setupVars == <<repositories, setup_pc, repo_idx, hass_data>>

sensorVars == <<sensor_pc, entities>>

issueVars == <<response, results, completed, all_issues>>

\* ------------------------------------------------ coordinator.py: bundle
\* DataUpdateCoordinators(information=..., release=..., issue=...)
DataUpdateCoordinators(r) == [k \in Kinds |-> <<r, k>>]

\* a list that names the information coordinator twice
CoordinatorListRepeated(bundle) ==
    <<bundle["information"], bundle["information"], bundle["release"],
      bundle["issue"]>>

\* DataUpdateCoordinators.list
CoordinatorList(bundle) ==
    <<bundle["information"], bundle["release"], bundle["issue"]>>

\* coordinators[key]
Lookup(bundle, key) ==
    IF key \in DOMAIN bundle THEN Some(bundle[key]) ELSE None

Registry == IF GITHUB_DOMAIN \in DOMAIN hass_data
            THEN hass_data[GITHUB_DOMAIN] ELSE <<>>

Registered == DOMAIN Registry

Constructed == DOMAIN data

\* ----------------------------------------- coordinator.py: update methods
Return(v) == [kind |-> "return", value |-> v]

Raise(e) == [kind |-> "raise", exc |-> e]

Ok(d) == [ok |-> TRUE, data |-> d]

Failure == [ok |-> FALSE]

\* the exception swallowed: the method returns None
InformationUpdateDataSwallowed(resp) ==
    IF resp.ok THEN Return(Some(resp.data)) ELSE Return(None)

\* RepositoryInformationDataUpdateCoordinator._async_update_data
InformationUpdateData(resp) ==
    IF resp.ok THEN Return(Some(resp.data)) ELSE Raise("UpdateFailed")

\* result.data[0] without the test for an empty list
ReleaseUpdateDataUnguarded(resp) ==
    IF resp.ok
    THEN IF resp.data # <<>> THEN Return(Some(resp.data[1])) ELSE Raise("IndexError")
    ELSE Raise("UpdateFailed")

\* RepositoryReleaseDataUpdateCoordinator._async_update_data
ReleaseUpdateData(resp) ==
    IF resp.ok
    THEN Return(IF resp.data # <<>> THEN Some(resp.data[1]) ELSE None)
    ELSE Raise("UpdateFailed")

\* [issue for issue in all_issues or [] if issue.pull_request is None]
RECURSIVE IssuesOf(_)
IssuesOf(all) ==
    IF all = <<>> THEN <<>>
    ELSE IF Head(all).pull_request = None
         THEN <<Head(all)>> \o IssuesOf(Tail(all))
         ELSE IssuesOf(Tail(all))

\* the pulls filtered with the test of the issues
PullsOfAsIssues(all) == SelectSeq(all, LAMBDA issue : issue.pull_request = None)

\* [issue for issue in all_issues or [] if issue.pull_request is not None]
RECURSIVE PullsOf(_)
PullsOf(all) ==
    IF all = <<>> THEN <<>>
    ELSE IF Head(all).pull_request # None
         THEN <<Head(all)>> \o PullsOf(Tail(all))
         ELSE PullsOf(Tail(all))

IssuesPulls(all) == [issues |-> IssuesOf(all), pulls |-> PullsOf(all)]

\* a range that always holds the next page number
PageRangeWithNext(resp) ==
    {resp.next_page_number} \cup (resp.next_page_number..resp.last_page_number)

\* range(response.next_page_number, response.last_page_number + 1)
PageRange(resp) == resp.next_page_number..resp.last_page_number

\* the results taken in the order in which the requests completed
GatherResultsAsCompleted(resp, res, order) ==
    [i \in 1..Len(order) |-> res[order[i]][1]]

\* what asyncio.gather returns: the results in the order of its arguments
GatherResults(resp, res, order) ==
    [i \in 1..Cardinality(PageRange(resp)) |->
        res[resp.next_page_number + i - 1][1]]

\* for result in results: response.data.extend(result.data)
RECURSIVE Extend(_, _)
Extend(acc, rs) ==
    IF rs = <<>> THEN acc ELSE Extend(acc \o Head(rs), Tail(rs))

\* the coordinators of an entry that was unloaded are stopped
Stopped(c) == setup_pc = "not_loaded_again"

\* DataUpdateCoordinator refresh: publish the result or record the failure;
\* the result of a stopped coordinator's fetch is abandoned
Publish(c, outcome) ==
    /\ fetch' = [fetch EXCEPT ![c] = "idle"]
    /\ in_flight' = [in_flight EXCEPT ![c] = @ - 1]
    /\ IF outcome.kind = "return"
       THEN IF Stopped(c)
            THEN UNCHANGED <<data, last_update_success>>
            ELSE /\ data' = [data EXCEPT ![c] = outcome.value]
                 /\ last_update_success' = [last_update_success EXCEPT ![c] = TRUE]
       ELSE /\ data' = data
            /\ last_update_success' = [last_update_success EXCEPT ![c] = FALSE]

\* beginning of _async_update_data: the first request is sent
StartFetch(c) ==
    /\ fetch' = [fetch EXCEPT ![c] = IF c[2] = "issue" THEN "first_page"
                                     ELSE "request"]
    /\ in_flight' = [in_flight EXCEPT ![c] = @ + 1]
    /\ completed' = [completed EXCEPT ![c] = <<>>]
    /\ all_issues' = [all_issues EXCEPT ![c] = <<>>]
    /\ response' = [response EXCEPT ![c] = None]
    /\ UNCHANGED <<data, last_update_success, results>>

\* self._client.repos.get(self.repository) answers
InformationResponse(c, resp) ==
    /\ c \in Constructed /\ c[2] = "information" /\ fetch[c] = "request"
    /\ Publish(c, InformationUpdateData(resp))
    /\ UNCHANGED <<setupVars, sensorVars, issueVars, ticks>>
    /\ UNCHANGED flowVars

\* self._client.repos.releases.list(...) answers
ReleaseResponse(c, resp) ==
    /\ c \in Constructed /\ c[2] = "release" /\ fetch[c] = "request"
    /\ Publish(c, ReleaseUpdateData(resp))
    /\ UNCHANGED <<setupVars, sensorVars, issueVars, ticks>>
    /\ UNCHANGED flowVars

\* return of _async_update_data with the list _get_issues returned
IssueReturn(c, all) ==
    /\ Publish(c, Return(Some(IssuesPulls(all))))
    /\ all_issues' = [all_issues EXCEPT ![c] = all]
    /\ results' = [results EXCEPT ![c] = <<>>]

\* GitHubException out of _get_issues, raised again as UpdateFailed
IssueRaise(c) ==
    /\ Publish(c, Raise("UpdateFailed"))
    /\ response' = [response EXCEPT ![c] = None]
    /\ results' = [results EXCEPT ![c] = <<>>]
    /\ UNCHANGED all_issues

\* a gathered request raised and its page is skipped
GatherExceptionSkipped(c, p) ==
    /\ results' = [results EXCEPT ![c][p] = Some(<<>>)]
    /\ completed' = [completed EXCEPT ![c] = Append(@, p)]
    /\ UNCHANGED <<data, last_update_success, fetch, in_flight, response,
                        all_issues>>

\* a gathered request raised: asyncio.gather raises GitHubException at once
GatherException(c, p) == IssueRaise(c) /\ UNCHANGED completed

\* the first self._client.repos.issues.list(...) answers
IssueFirstPage(c, resp) ==
    /\ c \in Constructed /\ c[2] = "issue" /\ fetch[c] = "first_page"
    /\ IF ~resp.ok
       THEN IssueRaise(c) /\ UNCHANGED completed
       ELSE IF resp.is_last_page \/ PageRange(resp) = {}
       THEN /\ IssueReturn(c, resp.data)
            /\ response' = [response EXCEPT ![c] = Some(resp)]
            /\ UNCHANGED completed
       ELSE /\ fetch' = [fetch EXCEPT ![c] = "gather"]
            /\ response' = [response EXCEPT ![c] = Some(resp)]
            /\ results' = [results EXCEPT ![c] = [p \in PageRange(resp) |-> None]]
            /\ UNCHANGED <<data, last_update_success, in_flight, completed,
                           all_issues>>
    /\ UNCHANGED <<setupVars, sensorVars, ticks>>
    /\ UNCHANGED flowVars

\* one of the gathered page requests answers
IssuePage(c, p, resp) ==
    /\ c \in Constructed /\ c[2] = "issue" /\ fetch[c] = "gather"
    /\ p \in DOMAIN results[c] /\ results[c][p] = None
    /\ IF resp.ok
       THEN /\ results' = [results EXCEPT ![c][p] = Some(resp.data)]
            /\ completed' = [completed EXCEPT ![c] = Append(@, p)]
            /\ UNCHANGED <<data, last_update_success, fetch, in_flight, response,
                        all_issues>>
       ELSE GatherException(c, p)
    /\ UNCHANGED <<setupVars, sensorVars, ticks>>
    /\ UNCHANGED flowVars

\* every gathered request has answered: _get_issues extends and returns
IssueGathered(c) ==
    /\ c \in Constructed /\ c[2] = "issue" /\ fetch[c] = "gather"
    /\ \A p \in DOMAIN results[c] : results[c][p] # None
    /\ LET all == Extend(response[c][1].data,
                         GatherResults(response[c][1], results[c], completed[c]))
       IN  /\ IssueReturn(c, all)
           /\ response' = [response EXCEPT ![c] = Some([@[1] EXCEPT !.data = all])]
    /\ UNCHANGED <<setupVars, sensorVars, completed, ticks>>
    /\ UNCHANGED flowVars

\* ------------------------------------------------ __init__.py: the entry
\* body of "for repository in repositories" up to the await of the gather:
\* the bundle is built and registered, then every first refresh is started
SetupRepository(i) ==
    LET r == repositories[i]
        coordinators == DataUpdateCoordinators(r)
        new == {coordinators[k] : k \in DOMAIN coordinators}
    IN  /\ hass_data' = (GITHUB_DOMAIN :> ((r :> coordinators) @@ Registry))
                            @@ hass_data
        /\ data' = [c \in new |-> None] @@ data
        /\ last_update_success' = [c \in new |-> TRUE] @@ last_update_success
        /\ fetch' = [c \in new |-> IF c[2] = "issue" THEN "first_page"
                                   ELSE "request"] @@ fetch
        /\ in_flight' = [c \in new |-> Count(c, CoordinatorList(coordinators))]
                            @@ in_flight
        /\ response' = [c \in new |-> None] @@ response
        /\ results' = [c \in new |-> <<>>] @@ results
        /\ completed' = [c \in new |-> <<>>] @@ completed
        /\ all_issues' = [c \in new |-> <<>>] @@ all_issues
        /\ repo_idx' = i

\* hass.config_entries.async_setup_platforms(entry, PLATFORMS); return True
SetupPlatforms ==
    /\ setup_pc' = "loaded"
    /\ sensor_pc' = "scheduled"

\* async_setup_entry up to its first await
SetupEntry ==
    /\ setup_pc = "not_loaded"
    /\ IF repositories = <<>>
       THEN /\ hass_data' = (GITHUB_DOMAIN :> Registry) @@ hass_data
            /\ SetupPlatforms
            /\ UNCHANGED <<repo_idx, data, last_update_success, fetch, in_flight,
                           issueVars>>
       ELSE /\ SetupRepository(1)
            /\ setup_pc' = "first_refresh"
            /\ UNCHANGED sensor_pc
    /\ UNCHANGED <<repositories, ticks, entities>>
    /\ UNCHANGED flowVars

CurrentBundle == Registry[repositories[repo_idx]]

\* the gather of the first refreshes returns: next repository, or the end
SetupFirstRefreshDone ==
    /\ setup_pc = "first_refresh"
    /\ \A k \in DOMAIN CurrentBundle :
          /\ fetch[CurrentBundle[k]] = "idle"
          /\ last_update_success[CurrentBundle[k]]
    /\ IF repo_idx < Len(repositories)
       THEN /\ SetupRepository(repo_idx + 1)
            /\ UNCHANGED <<setup_pc, sensor_pc>>
       ELSE /\ SetupPlatforms
            /\ UNCHANGED <<repo_idx, hass_data, data, last_update_success,
                           fetch, in_flight, issueVars>>
    /\ UNCHANGED <<repositories, ticks, entities>>
    /\ UNCHANGED flowVars

\* a first refresh ended without success: async_config_entry_first_refresh
\* raises, the gather raises, async_setup_entry raises
SetupFirstRefreshFailed ==
    /\ setup_pc = "first_refresh"
    /\ \E k \in DOMAIN CurrentBundle :
          /\ fetch[CurrentBundle[k]] = "idle"
          /\ ~last_update_success[CurrentBundle[k]]
    /\ setup_pc' = "setup_error"
    /\ UNCHANGED <<repositories, repo_idx, hass_data, data, last_update_success,
                   fetch, in_flight, issueVars, ticks, sensorVars>>
    /\ UNCHANGED flowVars

\* async_unload_entry without the pop of the domain's data
UnloadEntryKeepsData(unload_ok) ==
    /\ setup_pc = "loaded"
    /\ setup_pc' = IF unload_ok THEN "not_loaded_again" ELSE "failed_unload"
    /\ UNCHANGED <<repositories, repo_idx, hass_data, data, last_update_success,
                   fetch, in_flight, issueVars, ticks, sensorVars>>
    /\ UNCHANGED flowVars

\* async_unload_entry
UnloadEntry(unload_ok) ==
    /\ setup_pc = "loaded"
    /\ IF unload_ok
       THEN /\ hass_data' = [d \in DOMAIN hass_data \ {GITHUB_DOMAIN} |-> hass_data[d]]
            /\ setup_pc' = "not_loaded_again"
       ELSE /\ hass_data' = hass_data
            /\ setup_pc' = "failed_unload"
    /\ UNCHANGED <<repositories, repo_idx, data, last_update_success, fetch, in_flight,
                   issueVars, ticks, sensorVars>>
    /\ UNCHANGED flowVars

\* the update interval of a coordinator of a loaded entry elapses
TimerTick(c) ==
    /\ setup_pc = "loaded"
    /\ c \in Constructed /\ fetch[c] = "idle"
    /\ ticks < MaxTicks
    /\ ticks' = ticks + 1
    /\ StartFetch(c)
    /\ UNCHANGED <<setupVars, sensorVars>>
    /\ UNCHANGED flowVars

\* async_request_refresh() on a coordinator of a loaded entry: it refreshes
\* unless a fetch of that coordinator is running
RequestRefresh(c) ==
    /\ setup_pc = "loaded"
    /\ c \in Constructed /\ fetch[c] = "idle"
    /\ StartFetch(c)
    /\ UNCHANGED <<setupVars, sensorVars, ticks>>
    /\ UNCHANGED flowVars

\* async_refresh() of a coordinator that is not fetching
Refresh(c) ==
    /\ c \in Constructed /\ fetch[c] = "idle"
    /\ StartFetch(c)
    /\ UNCHANGED <<setupVars, sensorVars, ticks>>
    /\ UNCHANGED flowVars

\* --------------------------------------------------- sensor.py, entity.py
LatestClasses == <<"latest_commit", "latest_issue", "latest_pull", "latest_release">>

SENSOR_DESCRIPTIONS == <<"stargazers_count", "subscribers_count", "forks_count",
                         "default_branch", "issues_count", "pulls_count">>

Sensors == SeqRange(LatestClasses) \cup SeqRange(SENSOR_DESCRIPTIONS)

\* _coordinator_key of a latest class, coordinator_key of a description
CoordinatorKey(s) ==
    CASE s = "latest_commit" -> "commit"
      [] s = "latest_release" -> "release"
      [] s \in {"latest_issue", "latest_pull", "issues_count", "pulls_count"} -> "issue"
      [] OTHER -> "information"

\* the sensors async_setup_entry builds for one bundle, in order
BundleSensors == LatestClasses \o SENSOR_DESCRIPTIONS

\* sensor.async_setup_entry
SensorSetupEntry ==
    /\ sensor_pc = "scheduled"
    /\ LET wanted == {<<s, r>> : s \in SeqRange(BundleSensors), r \in Registered}
           found(sr) == Lookup(Registry[sr[2]], CoordinatorKey(sr[1]))
       IN  IF \E sr \in wanted : found(sr) = None
           THEN /\ sensor_pc' = "error"
                /\ UNCHANGED entities
           ELSE /\ sensor_pc' = "done"
                /\ entities' = {[sensor |-> sr[1], coordinator |-> found(sr)[1]] :
                                   sr \in wanted}
    /\ UNCHANGED <<setupVars, data, last_update_success, fetch, in_flight,
                   issueVars, ticks>>
    /\ UNCHANGED flowVars

\* CoordinatorEntity.available
CoordinatorEntityAvailable(c) == last_update_success[c]

\* available without the test of the snapshot
GitHubEntityAvailableNoData(c) == CoordinatorEntityAvailable(c)

\* GitHubEntity.available
GitHubEntityAvailable(c) == CoordinatorEntityAvailable(c) /\ data[c] # None

\* available of the sensor s reading the coordinator c
Available(s, c) ==
    CASE s = "latest_issue" ->
            GitHubEntityAvailable(c) /\ Len(data[c][1].issues) # 0
      [] s = "latest_pull" ->
            GitHubEntityAvailable(c) /\ Len(data[c][1].pulls) # 0
      [] OTHER -> GitHubEntityAvailable(c)

\* native_value of the sensor s reading the coordinator c
NativeValue(s, c) ==
    IF data[c] = None THEN Raise("AttributeError")
    ELSE CASE s = "latest_issue" ->
                 IF data[c][1].issues = <<>> THEN Raise("IndexError")
                 ELSE Return(data[c][1].issues[1].id)
           [] s = "latest_pull" ->
                 IF data[c][1].pulls = <<>> THEN Raise("IndexError")
                 ELSE Return(data[c][1].pulls[1].id)
           [] s = "issues_count" -> Return(Len(data[c][1].issues))
           [] s = "pulls_count" -> Return(Len(data[c][1].pulls))
           [] OTHER -> Return(data[c][1])

\* ---------------------------------------------------------- specifications
Init ==
    /\ repositories \in RepositoryLists
    /\ setup_pc = "not_loaded"
    /\ repo_idx = 0
    /\ hass_data = <<>>
    /\ data = <<>>
    /\ last_update_success = <<>>
    /\ fetch = <<>>
    /\ in_flight = <<>>
    /\ response = <<>>
    /\ results = <<>>
    /\ completed = <<>>
    /\ all_issues = <<>>
    /\ ticks = 0
    /\ sensor_pc = "not_scheduled"
    /\ entities = {}
    /\ entries = <<[title |-> "",
                    data |-> [access_token |-> 1, scope |-> "",
                              repositories |-> repositories],
                    options |-> <<>>]>>
    /\ flow = [state |-> "none", cur_step |-> ""]
    /\ awaiting = ""
    /\ device = FALSE
    /\ login_device = None
    /\ activation = None
    /\ call_later = 0
    /\ activating = 0
    /\ configure_tasks = 0
    /\ flow_result = [type |-> "none"]

FirstPages(pages, lasts) ==
    {Failure} \cup
    [ok : {TRUE}, data : pages, is_last_page : BOOLEAN,
     next_page_number : NextPageNumbers, last_page_number : lasts]

PageAnswers(pages) == {Failure} \cup {Ok(d) : d \in pages}

\* first pages of repositories whose open items fit one page
BundleFirstPages ==
    {resp \in FirstPages(BundlePageData, BundleLastPageNumbers) :
        resp.ok => resp.is_last_page}

Next ==
    \/ SetupEntry
    \/ SetupFirstRefreshDone
    \/ SetupFirstRefreshFailed
    \/ \E ok \in BOOLEAN : UnloadEntry(ok)
    \/ SensorSetupEntry
    \/ \E c \in Repos \X Kinds : TimerTick(c)
    \/ \E c \in Repos \X Kinds, resp \in {Failure} \cup {Ok(v) : v \in InfoValues} :
          InformationResponse(c, resp)
    \/ \E c \in Repos \X Kinds, resp \in {Failure} \cup {Ok(l) : l \in ReleaseLists} :
          ReleaseResponse(c, resp)
    \/ \E c \in Repos \X Kinds, resp \in BundleFirstPages :
          IssueFirstPage(c, resp)

Spec == Init /\ [][Next]_vars

\* the bundle of one repository: its setup, then its timers and refresh
\* requests
InitBundle == Init /\ repositories = <<1>>

NextBundle ==
    \/ SetupEntry
    \/ SetupFirstRefreshDone
    \/ SetupFirstRefreshFailed
    \/ \E c \in {1} \X Kinds : TimerTick(c)
    \/ \E c \in {1} \X Kinds : RequestRefresh(c)
    \/ \E c \in {1} \X Kinds, resp \in {Failure} \cup {Ok(v) : v \in InfoValues} :
          InformationResponse(c, resp)
    \/ \E c \in {1} \X Kinds, resp \in {Failure} \cup {Ok(l) : l \in ReleaseLists} :
          ReleaseResponse(c, resp)
    \/ \E c \in {1} \X Kinds, resp \in BundleFirstPages :
          IssueFirstPage(c, resp)

SpecBundle == InitBundle /\ [][NextBundle]_vars

\* one issue coordinator on its own, refreshed again and again
IssueCoordinator == <<1, "issue">>

InitIssues ==
    /\ repositories = <<1>>
    /\ setup_pc = "not_loaded"
    /\ repo_idx = 0
    /\ hass_data = <<>>
    /\ data = (IssueCoordinator :> None)
    /\ last_update_success = (IssueCoordinator :> TRUE)
    /\ fetch = (IssueCoordinator :> "idle")
    /\ in_flight = (IssueCoordinator :> 0)
    /\ response = (IssueCoordinator :> None)
    /\ results = (IssueCoordinator :> <<>>)
    /\ completed = (IssueCoordinator :> <<>>)
    /\ all_issues = (IssueCoordinator :> <<>>)
    /\ ticks = 0
    /\ sensor_pc = "not_scheduled"
    /\ entities = {}
    /\ entries = <<>>
    /\ flow = [state |-> "none", cur_step |-> ""]
    /\ awaiting = ""
    /\ device = FALSE
    /\ login_device = None
    /\ activation = None
    /\ call_later = 0
    /\ activating = 0
    /\ configure_tasks = 0
    /\ flow_result = [type |-> "none"]

NextIssues ==
    \/ Refresh(IssueCoordinator)
    \/ \E resp \in FirstPages(PageData, LastPageNumbers) : IssueFirstPage(IssueCoordinator, resp)
    \/ \E p \in 2..MaxPages, resp \in PageAnswers(PageData) :
          IssuePage(IssueCoordinator, p, resp)
    \/ IssueGathered(IssueCoordinator)

SpecIssues == InitIssues /\ [][NextIssues]_vars

\* ------------------------------------------------------- config_flow.py
DEFAULT_REPOSITORY == 1

EXPIRES_IN == 900

AccessTokens == 1..NumTokens

Scopes == {"", "repo"}

Activations == [access_token : AccessTokens, scope : Scopes]

LoginDevices == [user_code : {"WDJB-MJHT"}, expires_in : {None, Some(EXPIRES_IN)}]

StarredLists == RepositoryLists

UserInputs == {None} \cup {Some(l) : l \in RepositoryLists}

\* sorted(..., key=str.casefold)
RECURSIVE Sorted(_)
Sorted(l) ==
    IF l = <<>> THEN <<>>
    ELSE LET least == CHOOSE x \in SeqRange(l) : \A y \in SeqRange(l) : x <= y
         IN  <<least>> \o Sorted(SelectSeq(l, LAMBDA y : y # least))

\* _stared_repositories
StaredRepositories(resp) ==
    IF resp.ok THEN Sorted(resp.data) ELSE <<DEFAULT_REPOSITORY>>

Abort(reason) == [type |-> "abort", reason |-> reason]

Removed == [state |-> "removed", cur_step |-> ""]

Active(step) == [state |-> "active", cur_step |-> step]

\* async_step_device up to its await or, once activated, to its return
StepDevice ==
    IF activation = None
    THEN /\ call_later + activating < MaxCallLater
         /\ device' = TRUE
         /\ call_later' = call_later + 1
         /\ awaiting' = "register"
         /\ UNCHANGED <<flow_result, entries, login_device, activation,
                        activating>>
    ELSE /\ flow_result' = [type |-> "progress_done", step_id |-> "repositories"]
         /\ flow' = Active("repositories")
         /\ UNCHANGED <<entries, awaiting, device, login_device, activation,
                        call_later, activating>>

\* async_step_user without the test of the current entries
StepUserUnchecked ==
    /\ flow.state = "none"
    /\ StepDevice
    /\ flow' = [state |-> "init", cur_step |-> ""]
    /\ UNCHANGED <<configure_tasks, integrationVars>>

\* flow.async_init with the user source: async_step_user
StepUser ==
    /\ flow.state = "none"
    /\ IF entries # <<>>
       THEN /\ flow_result' = Abort("already_configured")
            /\ flow' = Removed
            /\ UNCHANGED <<entries, awaiting, device, login_device, activation,
                           call_later, activating>>
       ELSE /\ StepDevice
            /\ flow' = [state |-> "init", cur_step |-> ""]
    /\ UNCHANGED <<configure_tasks, integrationVars>>

\* self._device.register() answers: rest of async_step_device
RegisterResponse(resp) ==
    /\ awaiting = "register"
    /\ awaiting' = ""
    /\ IF resp.ok
       THEN /\ login_device' = Some(resp.data)
            /\ flow_result' = [type |-> "progress", step_id |-> "device",
                               code |-> resp.data.user_code]
            /\ flow' = Active("device")
       ELSE /\ flow_result' = Abort("could_not_register")
            /\ flow' = Removed
            /\ UNCHANGED login_device
    /\ UNCHANGED <<entries, device, activation, call_later, activating,
                   configure_tasks, integrationVars>>

\* a scheduled _wait_for_activation runs up to its return or its await
WaitForActivation ==
    /\ call_later > 0
    /\ IF login_device = None \/ login_device[1].expires_in = None
       THEN UNCHANGED <<call_later, activating>>
       ELSE /\ call_later' = call_later - 1
            /\ activating' = activating + 1
    /\ UNCHANGED <<entries, flow, awaiting, device, login_device, activation,
                   configure_tasks, flow_result, integrationVars>>

\* self._device.activation(...) answers: rest of _wait_for_activation
ActivationResponse(resp) ==
    /\ activating > 0
    /\ activating' = activating - 1
    /\ IF resp.ok
       THEN /\ activation' = Some(resp.data)
            /\ configure_tasks' = configure_tasks + 1
       ELSE UNCHANGED <<activation, configure_tasks>>
    /\ UNCHANGED <<entries, flow, awaiting, device, login_device, call_later,
                   flow_result, integrationVars>>

\* async_step_repositories up to its await or its return
StepRepositories(user_input) ==
    IF user_input = None
    THEN /\ awaiting' = "starred"
         /\ UNCHANGED <<entries, flow, flow_result>>
    ELSE LET entry == [title |-> "",
                       data |-> [access_token |-> activation[1].access_token,
                                 scope |-> activation[1].scope,
                                 repositories |-> user_input[1]],
                       options |-> <<>>]
         IN  /\ flow_result' = [type |-> "create_entry", title |-> entry.title,
                                data |-> entry.data, options |-> entry.options]
             /\ entries' = Append(entries, entry)
             /\ flow' = Removed
             /\ UNCHANGED awaiting

\* flow.async_configure: the step the flow is at is called
Configure(user_input) ==
    /\ flow.state = "active"
    /\ awaiting = ""
    /\ IF flow.cur_step = "device"
       THEN StepDevice /\ (activation = None => UNCHANGED flow)
       ELSE /\ StepRepositories(user_input)
            /\ UNCHANGED <<device, login_device, activation, call_later,
                           activating>>

\* the user, or the frontend, continues the flow
UserConfigure(user_input) ==
    /\ Configure(user_input)
    /\ UNCHANGED <<configure_tasks, integrationVars>>

\* the task _wait_for_activation created continues the flow
ConfigureTask ==
    /\ configure_tasks > 0
    /\ awaiting = ""
    /\ configure_tasks' = configure_tasks - 1
    /\ IF flow.state = "active"
       THEN Configure(None)
       ELSE UNCHANGED <<entries, flow, awaiting, device, login_device,
                        activation, call_later, activating, flow_result>>
    /\ UNCHANGED integrationVars

\* client.user.starred(...) answers: rest of async_step_repositories
StarredResponse(resp) ==
    /\ awaiting = "starred"
    /\ awaiting' = ""
    /\ flow_result' = [type |-> "form", step_id |-> "repositories",
                       repositories |-> StaredRepositories(resp)]
    /\ UNCHANGED <<entries, flow, device, login_device, activation, call_later,
                   activating, configure_tasks, integrationVars>>

ExistingEntry ==
    [title |-> "",
     data |-> [access_token |-> 1, scope |-> "", repositories |-> <<DEFAULT_REPOSITORY>>],
     options |-> <<>>]

InitFlow ==
    /\ entries \in {<<>>, <<ExistingEntry>>}
    /\ flow = [state |-> "none", cur_step |-> ""]
    /\ awaiting = ""
    /\ device = FALSE
    /\ login_device = None
    /\ activation = None
    /\ call_later = 0
    /\ activating = 0
    /\ configure_tasks = 0
    /\ flow_result = [type |-> "none"]
    /\ repositories = <<>>
    /\ setup_pc = "not_loaded"
    /\ repo_idx = 0
    /\ hass_data = <<>>
    /\ data = <<>>
    /\ last_update_success = <<>>
    /\ fetch = <<>>
    /\ in_flight = <<>>
    /\ response = <<>>
    /\ results = <<>>
    /\ completed = <<>>
    /\ all_issues = <<>>
    /\ ticks = 0
    /\ sensor_pc = "not_scheduled"
    /\ entities = {}

NextFlow ==
    \/ StepUser
    \/ \E resp \in {Failure} \cup {Ok(d) : d \in LoginDevices} : RegisterResponse(resp)
    \/ WaitForActivation
    \/ \E resp \in {Failure} \cup {Ok(a) : a \in Activations} : ActivationResponse(resp)
    \/ \E user_input \in UserInputs : UserConfigure(user_input)
    \/ ConfigureTask
    \/ \E resp \in {Failure} \cup {Ok(l) : l \in StarredLists} : StarredResponse(resp)

SpecFlow == InitFlow /\ [][NextFlow]_vars

\* ================================================================ claims
\* the first page followed by the pages p..last in ascending page number
RECURSIVE InPageOrder(_, _, _, _)
InPageOrder(list, res, p, last) ==
    IF p > last THEN list
    ELSE InPageOrder(list \o res[p][1], res, p + 1, last)

\* C1: whatever the order in which the gathered page requests complete, the
\* list _get_issues returns is the first page's items followed by the items
\* of the pages next_page..last_page in ascending page number.
C1_PageNumberOrder ==
    [][\A c \in Constructed :
          (fetch[c] = "gather" /\ fetch'[c] = "idle" /\ last_update_success'[c])
          => all_issues'[c] =
                InPageOrder(response[c][1].data, results[c],
                            response[c][1].next_page_number,
                            response[c][1].last_page_number)]_vars

\* a three page fetch whose page 3 completed before its page 2 has returned
C1_Witness ==
    \E c \in Constructed :
       /\ fetch[c] = "idle" /\ last_update_success[c]
       /\ completed[c] = <<3, 2>>
       /\ Len(all_issues[c]) = 3
       /\ all_issues[c][2] # all_issues[c][3]

\* C2: when a gathered (non-first) page request raises, the fetch ends at
\* once in failure, nothing is returned or published, and the coordinator's
\* snapshot is the one it had before; no step inside a cycle changes it.
C2_FailFast ==
    [][\A c \in Constructed :
          /\ \A p \in 2..MaxPages :
                (fetch[c] = "gather" /\ IssuePage(c, p, Failure))
                => /\ fetch'[c] = "idle"
                   /\ ~last_update_success'[c]
                   /\ data'[c] = data[c]
                   /\ all_issues'[c] = <<>>
          /\ fetch'[c] # "idle" => data'[c] = data[c]]_vars

\* a coordinator with a snapshot whose cycle failed on a gathered page after
\* another gathered page had completed
C2_Witness ==
    \E c \in Constructed :
       /\ fetch[c] = "idle" /\ ~last_update_success[c]
       /\ completed[c] # <<>>
       /\ data[c] # None
       /\ all_issues[c] = <<>>

\* C3: the snapshot a fetch has just returned holds every item of that
\* fetch's all_issues once in its two lists: the lengths add up, an item is
\* in the issues iff it has no pull-request marker and in the pulls iff it
\* has one, and each list keeps fetch order.
C3_Partition ==
    \A c \in Constructed :
       (/\ c[2] = "issue" /\ data[c] # None
        /\ fetch[c] = "idle" /\ last_update_success[c]) =>
          LET all == all_issues[c]
              issues == data[c][1].issues
              pulls == data[c][1].pulls
          IN  /\ Len(issues) + Len(pulls) = Len(all)
              /\ \A x \in SeqRange(all) :
                    /\ Count(x, issues) + Count(x, pulls) = Count(x, all)
                    /\ x.pull_request = None => Count(x, pulls) = 0
                    /\ x.pull_request # None => Count(x, issues) = 0
              /\ issues = SelectSeq(all, LAMBDA x : x \in SeqRange(issues))
              /\ pulls = SelectSeq(all, LAMBDA x : x \in SeqRange(pulls))

\* a snapshot of two different issues and a pull request between them
C3_Witness ==
    \E c \in Constructed :
       /\ c[2] = "issue" /\ data[c] # None
       /\ fetch[c] = "idle" /\ last_update_success[c]
       /\ Len(all_issues[c]) = 3
       /\ Len(data[c][1].issues) = 2
       /\ data[c][1].issues[1] # data[c][1].issues[2]
       /\ Len(data[c][1].pulls) = 1
       /\ all_issues[c][2] = data[c][1].pulls[1]

\* C4: when a first refresh fails, setup fails and the registry holds no
\* bundle for the repository whose first refresh failed.
C4_NoBundleAfterFailedSetup ==
    setup_pc = "setup_error" => repositories[repo_idx] \notin Registered

\* the client raised on the first request of a cycle of the coordinator c
FailedAnswer(c) ==
    /\ fetch[c] \in {"request", "first_page"}
    /\ \/ InformationResponse(c, Failure)
       \/ ReleaseResponse(c, Failure)
       \/ IssueFirstPage(c, Failure)

BoundSensors ==
    {sc \in Sensors \X Constructed :
        \E r \in Registered : Lookup(Registry[r], CoordinatorKey(sc[1])) = Some(sc[2])}

C7_FirstReleaseOrNone ==
    [][\A c \in Constructed : \A l \in ReleaseLists :
          (fetch[c] = "request" /\ ~Stopped(c) /\ ReleaseResponse(c, Ok(l)))
          => /\ last_update_success'[c]
             /\ l # <<>> => data'[c] = Some(Head(l))
             /\ l = <<>> => data'[c] = None]_vars

\* an entry loaded with a release coordinator whose snapshot is None
C7_Witness ==
    \E c \in Constructed :
       /\ c[2] = "release"
       /\ setup_pc = "loaded"
       /\ fetch[c] = "idle" /\ last_update_success[c]
       /\ data[c] = None

\* C8: once the sensor platform has been set up for a repository without
\* releases, the setup has not failed and no release sensor entity exists
\* for the repository.
C8_NoReleaseSensor ==
    \A r \in Registered :
       (sensor_pc \in {"done", "error"} /\ data[<<r, "release">>] = None)
       => /\ sensor_pc = "done"
          /\ \A e \in entities :
                ~(e.sensor = "latest_release" /\ e.coordinator = <<r, "release">>)

\* C9: a registered bundle has one coordinator for each of the four keys,
\* and looking a key up returns it.
C9_FourCoordinators ==
    \A r \in Registered : \A k \in CoordinatorKeys :
       /\ Lookup(Registry[r], k) = Some(<<r, k>>)
       /\ <<r, k>> \in Constructed

\* C10: the user step of a flow started while an entry exists aborts with
\* already_configured, creates no device client, schedules no activation
\* wait and sends no request; nothing of that happens afterwards either.
C10_AlreadyConfigured ==
    /\ [][(flow.state = "none" /\ flow'.state # "none" /\ entries # <<>>)
           => /\ flow_result' = Abort("already_configured")
              /\ flow' = Removed]_vars
    /\ [](flow_result = Abort("already_configured")
           => /\ ~device /\ login_device = None /\ activation = None
              /\ awaiting = "" /\ call_later = 0 /\ activating = 0)

\* the flow has aborted with already_configured
C10_Witness ==
    /\ entries # <<>>
    /\ flow = Removed
    /\ flow_result = Abort("already_configured")

\* C11: a user flow started with no entry shows progress at step "device"
\* once registration has answered; when the activated flow is given a
\* repository selection at step "repositories" it creates an entry with an
\* empty title, the activation's access token and scope in data, and exactly
\* the submitted repositories in options.
C11_EntryFromUserFlow ==
    [][/\ (flow.state = "init" /\ \E d \in LoginDevices : RegisterResponse(Ok(d)))
          => /\ flow_result'.type = "progress"
             /\ flow_result'.step_id = "device"
       /\ \A l \in RepositoryLists :
             (/\ flow = Active("repositories") /\ activation # None
              /\ UserConfigure(Some(l)))
             => /\ flow_result'.type = "create_entry"
                /\ flow_result'.title = ""
                /\ flow_result'.data.access_token = activation[1].access_token
                /\ flow_result'.data.scope = activation[1].scope
                /\ "repositories" \in DOMAIN flow_result'.options
                /\ flow_result'.options.repositories = l]_vars

\* C12: no coordinator ever has two fetches running, whatever started them
\* (first refresh, timer tick, refresh request): the number of its running
\* fetches is 1 while its fetch is under way and 0 otherwise.
C12_NoOverlap ==
    \A c \in Constructed :
       /\ in_flight[c] <= 1
       /\ in_flight[c] = IF fetch[c] = "idle" THEN 0 ELSE 1

\* after setup, with a timer tick behind, two coordinators of one bundle
\* are fetching at the same time
C12_Witness ==
    \E r \in Registered : \E k1, k2 \in DOMAIN Registry[r] :
       /\ setup_pc = "loaded" /\ ticks >= 1
       /\ k1 # k2
       /\ in_flight[Registry[r][k1]] = 1
       /\ in_flight[Registry[r][k2]] = 1

\* C13: a first page that is flagged as the last page, or that is not
\* flagged but has last_page_number < next_page_number, ends the fetch with
\* no page request sent: the call returns that page's items as they are,
\* and they are what is partitioned and published.
C13_FirstPageOnly ==
    [][\A c \in Constructed :
          \A resp \in {r \in FirstPages(PageData, LastPageNumbers) : r.ok} :
             (/\ resp.is_last_page
                 \/ resp.last_page_number < resp.next_page_number
              /\ fetch[c] = "first_page"
              /\ IssueFirstPage(c, resp))
             => /\ fetch'[c] = "idle"
                /\ results'[c] = <<>>
                /\ all_issues'[c] = resp.data
                /\ last_update_success'[c]
                /\ data'[c] = Some(IssuesPulls(resp.data))]_vars

\* a fetch has returned the item of a first page that was not flagged as
\* the last page and had last_page_number < next_page_number
C13_Witness ==
    \E c \in Constructed :
       /\ fetch[c] = "idle" /\ last_update_success[c]
       /\ response[c] # None
       /\ ~response[c][1].is_last_page
       /\ response[c][1].last_page_number < response[c][1].next_page_number
       /\ completed[c] = <<>>
       /\ all_issues[c] # <<>>
       /\ all_issues[c] = response[c][1].data

\* C14: a successful unload leaves no bundle registered for a repository of
\* the entry, and from then on none is registered, no timer of a coordinator
\* fires and no coordinator's snapshot changes, so the result of a fetch that
\* was running at unload is never published; an unload whose platform
\* unload failed leaves the registered bundles as they were.
C14_Unload ==
    [][/\ UnloadEntry(TRUE)
          => \A i \in 1..Len(repositories) : repositories[i] \notin Registered'
       /\ UnloadEntry(FALSE) => hass_data' = hass_data
       /\ setup_pc = "not_loaded_again"
          => /\ Registered = {}
             /\ ticks' = ticks
             /\ \A c \in Constructed :
                   /\ ~TimerTick(c)
                   /\ data'[c] = data[c]]_vars

\* after a successful unload, a fetch of an issue coordinator that a timer
\* had started has returned a list that is not the coordinator's snapshot
C14_Witness ==
    \E c \in Constructed :
       /\ setup_pc = "not_loaded_again" /\ ticks >= 1
       /\ Registered = {}
       /\ c[2] = "issue"
       /\ fetch[c] = "idle" /\ all_issues[c] # <<>>
       /\ data[c] = Some(IssuesPulls(<<>>))

====
